---- MODULE Spec2Model ----
(***************************************************************************)
(* MDX dictionary reader: the nom-based parser of src/src/main.rs          *)
(* (mdict::mdx::parse) and the binread-based parser of src/src/mdict.rs    *)
(* (Mdx::parse, Mdx::search).                                              *)
(*                                                                         *)
(* The file is supplied to the parser piece by piece: every action draws   *)
(* the bytes of the item it reads from bounded sets.  zlib, LZO, RIPEMD    *)
(* and the XML deserializer are external libraries; they are modelled by   *)
(* their outcome (an output byte string, or an error).                     *)
(***************************************************************************)
EXTENDS Integers, Sequences, FiniteSets, TLC

\* ---- bounds of the model ----
MaxBlocks == 2
MaxEntries == 2
MaxOffset == 4
MaxRecLen == 2

\* size ceiling of the specification (64 MiB); the source has no such constant
SizeCeiling == 64 * 1024 * 1024
OverCeiling == SizeCeiling + 1

\* ---- byte strings ----
NUL == 0
Headwords == {<<97>>, <<98>>}

RECURSIVE BeValue(_)
\* big-endian integer of a byte string (be_u32 / be_u64 / read_be)
BeValue(bs) ==
    IF bs = <<>> THEN 0
    ELSE 256 * BeValue(SubSeq(bs, 1, Len(bs) - 1)) + bs[Len(bs)]

\* big-endian encoding of n < 256 on w bytes (the file's writer side)
EncodeNum(w, n) == [i \in 1..w |-> IF i = w THEN n ELSE 0]

\* one text unit: 1 byte in UTF-8, 2 bytes little-endian in UTF-16
EncodeUnit(uw, c) == IF uw = 1 THEN <<c>> ELSE <<c, 0>>

RECURSIVE EncodeStr(_, _)
EncodeStr(uw, s) ==
    IF s = <<>> THEN <<>> ELSE EncodeUnit(uw, Head(s)) \o EncodeStr(uw, Tail(s))

\* a key entry as laid out in a key block: number, text, null unit
EncodeEntry(w, uw, e) == EncodeNum(w, e.off) \o EncodeStr(uw, e.hw) \o EncodeUnit(uw, NUL)

RECURSIVE EncodeEntries(_, _, _)
EncodeEntries(w, uw, es) ==
    IF es = <<>> THEN <<>>
    ELSE EncodeEntry(w, uw, Head(es)) \o EncodeEntries(w, uw, Tail(es))

\* mdx_number: be_u64 in v2, be_u32 in v1
NumWidth(ver2) == IF ver2 THEN 8 ELSE 4
\* text unit width of mdx_string / info_key
UnitWidth(utf8) == IF utf8 THEN 1 ELSE 2

Failed == [ok |-> FALSE]

\* mdx_number applied at index p (1-based) of data
ParseNumber(data, p, w) ==
    IF p + w - 1 > Len(data) THEN Failed
    ELSE [ok |-> TRUE, val |-> BeValue(SubSeq(data, p, p + w - 1)), next |-> p + w]

IsNullUnit(data, p, uw) == \A i \in 0..(uw - 1) : data[p + i] = NUL

RECURSIVE ParseString(_, _, _, _)
\* mdx_string: many_till(le_u8 | le_u16, tag(null unit)); acc holds the units read
ParseString(data, p, uw, acc) ==
    IF p + uw - 1 > Len(data) THEN Failed
    ELSE IF IsNullUnit(data, p, uw) THEN [ok |-> TRUE, val |-> acc, next |-> p + uw]
    ELSE ParseString(data, p + uw, uw, Append(acc, data[p]))

\* key_entry: tuple((mdx_number, mdx_string))
ParseKeyEntry(data, p, w, uw) ==
    LET n == ParseNumber(data, p, w) IN
    IF ~n.ok THEN Failed
    ELSE LET s == ParseString(data, n.next, uw, <<>>) IN
         IF ~s.ok THEN Failed
         ELSE [ok |-> TRUE, val |-> [off |-> n.val, hw |-> s.val], next |-> s.next]

RECURSIVE ParseCount(_, _, _, _, _, _)
\* count(key_entry, k): exactly k entries from index p on, or failure
ParseCount(data, p, w, uw, k, acc) ==
    IF k = 0 THEN [ok |-> TRUE, val |-> acc, next |-> p]
    ELSE LET e == ParseKeyEntry(data, p, w, uw) IN
         IF ~e.ok THEN Failed
         ELSE ParseCount(data, e.next, w, uw, k - 1, Append(acc, e.val))

RECURSIVE InsertAllKeepFirst(_, _)
\* an insertion that keeps the offset already stored for a headword
InsertAllKeepFirst(m, es) ==
    IF es = <<>> THEN m
    ELSE LET e == Head(es) IN
         InsertAllKeepFirst([h \in DOMAIN m \cup {e.hw} |-> IF h \in DOMAIN m THEN m[h] ELSE e.off],
                            Tail(es))

RECURSIVE InsertAll(_, _)
\* keymap.insert(entry.1, entry.0) for every entry, in order
InsertAll(m, es) ==
    IF es = <<>> THEN m
    ELSE LET e == Head(es) IN
         InsertAll([h \in DOMAIN m \cup {e.hw} |-> IF h = e.hw THEN e.off ELSE m[h]],
                   Tail(es))

EmptyMap == [h \in {} |-> 0]

\* the bytes of data from index p on, which count(key_entry, n) leaves unread, are all null
AllNull(data, p) == \A i \in p..Len(data) : data[i] = NUL

\* ---- inputs the file can hold ----
\* header_byte_len of the metadata section
MetaLens == {4, 5}
\* nb_block_info of the key-index header (v2: 8 bytes of preamble included)
NbInfos == {12}
\* magic word in front of the v2 key-block-info section
Magics == {1, 2}
\* type tag of a content-block frame
Tags == 0..3
\* n_entries of the key-index header
NEntries == {MaxEntries, MaxBlocks * MaxEntries}
\* head_len / tail_len of a key-block-info record
HeadLens == {1}

\* the headwords a key block can hold, in order
HeadwordSeqs == UNION {[1..n -> Headwords] : n \in 0..MaxEntries}
\* the entries of a key block whose first record offset is base: offsets grow by one per entry
EntriesAt(hs, base) == [i \in 1..Len(hs) |-> [off |-> base + i - 1, hw |-> hs[i]]]
Trailers == {<<>>, <<NUL>>}

\* byte length of one key entry with a one-character headword
EntryLen(w, uw) == w + 2 * uw
\* what a key block can decode to: entries, then possibly a trailing null
Contents(w, uw, base) ==
    {EncodeEntries(w, uw, EntriesAt(hs, base)) \o t : hs \in HeadwordSeqs, t \in Trailers}
\* payload lengths of a key content block frame (room for MaxEntries entries)
PayloadLens(w, uw) == {MaxEntries * EntryLen(w, uw)}
\* nb_decompressed a key-block-info record can declare
DeclaredLens(w, uw) == {MaxEntries * EntryLen(w, uw), OverCeiling}

\* a key-block-info record as stored in the file (nb_compressed counts the frame's 8 bytes)
InfoRecs(w, uw) ==
    [n_entries : 0..MaxEntries, head_len : HeadLens, tail_len : HeadLens,
     nb_compressed : {8 + l : l \in PayloadLens(w, uw)},
     nb_decompressed : DeclaredLens(w, uw)]

VARIABLES
    pc,       \* where the parse is: a phase, "done", "error", "panic" or "abort"
    err,      \* the error value returned, "" when none
    pos,      \* bytes of the file consumed so far
    phases,   \* the phases entered, in order
    meta,     \* DictMeta: [ver2, utf8]
    hdr,      \* KeyBlockHeader: [n_blocks, n_entries, nb_block_info]
    magic,    \* the word read in front of the v2 key-block-info section, 0 when none
    infos,    \* Vec<KeyBlockInfo> / Vec<MdxKeyBlockInfoItem>: the items not yet iterated
    nsum,     \* sum of n_entries over the key-block-info records read
    blk,      \* index of the next key content block
    keymap,   \* KeyMap: HashMap<String, u64>
    keylist,  \* the entries parsed so far, in the order they were read
    cb,       \* the content block decoded last: its tag, the capacity allocated for it
              \* (-1: none), the length of the bytes returned (-1: none), how many of
              \* them the key entries consumed (-1: none read) and whether the bytes
              \* after the entries are all null
    order,    \* the headwords as the key map enumerated them
    records,  \* MdxRecordBlock.entries: the data of each record content block
    rblk,     \* number of record content blocks still to read
    found,    \* the outcome of the last search
    unz,      \* the deobfuscation loop of unzip / parse_key_block_info
    kb        \* the head or tail that key_bytes is reading

vars == <<pc, err, pos, phases, meta, hdr, magic, infos, nsum, blk, keymap, keylist, cb,
          order, records, rblk, found, unz, kb>>

NoMeta == [ver2 |-> FALSE, utf8 |-> FALSE]
NoHdr == [n_blocks |-> 0, n_entries |-> 0, nb_block_info |-> 0]
NoBlock == [tag |-> -1, cap |-> -1, len |-> -1, used |-> -1, nulls |-> TRUE]
NoUnz == [cipher |-> <<>>, key |-> <<>>, i |-> 0, prev |-> 0, out |-> <<>>]
NoKb == [ver2 |-> FALSE, utf8 |-> FALSE, len |-> 0, text |-> <<>>, read |-> -1, units |-> <<>>]

Init ==
    /\ pc = "meta"
    /\ err = ""
    /\ pos = 0
    /\ phases = <<>>
    /\ meta = NoMeta
    /\ hdr = NoHdr
    /\ magic = 0
    /\ infos = <<>>
    /\ nsum = 0
    /\ blk = 1
    /\ keymap = EmptyMap
    /\ keylist = <<>>
    /\ cb = NoBlock
    /\ order = <<>>
    /\ records = <<>>
    /\ rblk = 0
    /\ found = [kind |-> "none"]
    /\ unz = NoUnz
    /\ kb = NoKb

\* the parse stops with an error value / a panic / an allocation abort
Stop(how, what) ==
    /\ pc' = how
    /\ err' = what

\* ======================= src/src/main.rs: mdict::mdx =======================

\* bytes of the key-index header: four mdx_number, and in v2 nb_decompressed and checksum
KeyHeaderLen(ver2) == 4 * NumWidth(ver2) + (IF ver2 THEN 8 + 4 ELSE 0)

\* bytes of one key-block-info record: key_bytes reads head_len + 1 units after a u16 in v2,
\* head_len units after a u8 in v1
KeyBytesLen(ver2, uw, n) == IF ver2 THEN 2 + (n + 1) * uw ELSE 1 + n * uw
InfoRecLen(ver2, uw, r) ==
    3 * NumWidth(ver2) + KeyBytesLen(ver2, uw, r.head_len) + KeyBytesLen(ver2, uw, r.tail_len)

RECURSIVE InfoRecsLen(_, _, _)
InfoRecsLen(ver2, uw, rs) ==
    IF rs = <<>> THEN 0
    ELSE InfoRecLen(ver2, uw, Head(rs)) + InfoRecsLen(ver2, uw, Tail(rs))

\* KeyBlockInfo built by info_normal: nb_compressed without the frame's type and checksum
KeyBlockInfo(r) ==
    [n_entries |-> r.n_entries, nb_compressed |-> r.nb_compressed - 8,
     nb_decompressed |-> r.nb_decompressed]

\* dict_meta: be_u32 length, length / 2 UTF-16 units, le_u32 checksum, then the XML
NomDictMeta ==
    /\ UNCHANGED <<unz, kb>>
    /\ pc = "meta"
    /\ phases' = Append(phases, "meta")
    /\ \E len \in MetaLens, out \in {"Incomplete", "FromUtf16", "De", "ok"} :
         IF out = "ok"
         THEN \E v \in BOOLEAN, u \in BOOLEAN :
                /\ meta' = [ver2 |-> v, utf8 |-> u]
                /\ pos' = pos + 4 + 2 * (len \div 2) + 4
                /\ pc' = "key_header"
                /\ UNCHANGED err
         ELSE /\ Stop("error", out)
              /\ UNCHANGED <<meta, pos>>
    /\ UNCHANGED <<hdr, magic, infos, nsum, blk, keymap, keylist, cb, order, records, rblk, found>>

\* key_block, first part: the KeyBlockHeader
NomKeyHeader ==
    /\ UNCHANGED <<unz, kb>>
    /\ pc = "key_header"
    /\ phases' = Append(phases, "key")
    /\ \/ /\ Stop("error", "Incomplete")
          /\ UNCHANGED <<pos, hdr>>
       \/ \E nb \in 0..MaxBlocks, ne \in NEntries, nbi \in NbInfos :
            /\ hdr' = [n_blocks |-> nb, n_entries |-> ne, nb_block_info |-> nbi]
            /\ pos' = pos + KeyHeaderLen(meta.ver2)
            /\ pc' = "key_info"
            /\ UNCHANGED err
    /\ UNCHANGED <<meta, magic, infos, nsum, blk, keymap, keylist, cb, order, records, rblk, found>>

RECURSIVE SumEntries(_)
\* sum of n_entries over key-block-info records
SumEntries(rs) == IF rs = <<>> THEN 0 ELSE Head(rs).n_entries + SumEntries(Tail(rs))

\* key_block_info: in v2 two le_u32 and nb_block_info - 8 bytes, unzip, info_normal on the
\* plaintext; in v1 info_normal on the file itself
NomKeyBlockInfo ==
    /\ UNCHANGED <<unz, kb>>
    /\ pc = "key_info"
    /\ LET w == NumWidth(meta.ver2)
           uw == UnitWidth(meta.utf8)
           RecSeqs == [1..hdr.n_blocks -> InfoRecs(w, uw)]
       IN  IF meta.ver2
           THEN \/ /\ Stop("error", "Incomplete")
                   /\ UNCHANGED <<pos, magic, infos, nsum>>
                \/ \E m \in Magics :
                     /\ magic' = m
                     /\ \/ \E recs \in RecSeqs :
                             /\ infos' = [i \in 1..hdr.n_blocks |-> KeyBlockInfo(recs[i])]
                             /\ nsum' = SumEntries(recs)
                             /\ pos' = pos + hdr.nb_block_info
                             /\ pc' = "key_blocks"
                             /\ UNCHANGED err
                        \/ /\ Stop("error", "IO")
                           /\ UNCHANGED <<pos, infos, nsum>>
                        \/ /\ hdr.n_blocks > 0
                           /\ Stop("error", "Incomplete")
                           /\ UNCHANGED <<pos, infos, nsum>>
           ELSE \/ /\ hdr.n_blocks > 0
                   /\ Stop("error", "Incomplete")
                   /\ UNCHANGED <<pos, magic, infos, nsum>>
                \/ \E recs \in RecSeqs :
                     /\ infos' = [i \in 1..hdr.n_blocks |-> KeyBlockInfo(recs[i])]
                     /\ nsum' = SumEntries(recs)
                     /\ pos' = pos + InfoRecsLen(FALSE, uw, recs)
                     /\ pc' = "key_blocks"
                     /\ UNCHANGED <<err, magic>>
    /\ UNCHANGED <<phases, meta, hdr, blk, keymap, keylist, cb, order, records, rblk, found>>

\* what the decoder of a frame yields: kind "data" with the bytes and the capacity
\* content_block itself allocated with Vec::with_capacity (-1: none; what minilzo
\* allocates is its own), "abort" when that allocation fails, or an error.  The
\* inflated bytes are whatever the stream holds; the LZO output fits in the
\* nb_decompressed bytes handed to the decompressor
NomDecode(tag, item, w, uw, base) ==
    CASE tag = 2 ->
           {[kind |-> "data", cap |-> item.nb_decompressed, data |-> d] : d \in Contents(w, uw, base)}
           \cup {[kind |-> "IO", cap |-> item.nb_decompressed],
                 [kind |-> "abort", cap |-> item.nb_decompressed]}
      [] tag = 0 ->
           {[kind |-> "data", cap |-> -1, data |-> d] :
               d \in {c \in Contents(w, uw, base) : Len(c) = item.nb_compressed}}
      [] tag = 1 ->
           {[kind |-> "data", cap |-> -1, data |-> d] :
               d \in {c \in Contents(w, uw, base) : Len(c) <= item.nb_decompressed}}
           \cup {[kind |-> "LZO", cap |-> -1]}

\* key_block, one turn of `for item in infos` (the loop consumes the vector):
\* content_block, count(key_entry, n_entries), keymap.insert for every entry
NomKeyBlock ==
    /\ UNCHANGED <<unz, kb>>
    /\ pc = "key_blocks"
    /\ infos # <<>>
    /\ LET item == Head(infos)
           w == NumWidth(meta.ver2)
           uw == UnitWidth(meta.utf8)
       IN  \/ /\ Stop("error", "Incomplete")
              /\ UNCHANGED <<pos, infos, blk, keymap, keylist, cb>>
           \/ \E tag \in Tags :
                IF tag \notin {0, 1, 2}
                THEN /\ Stop("panic", "Unknown ContentBlockType")
                     /\ cb' = [NoBlock EXCEPT !.tag = tag]
                     /\ UNCHANGED <<pos, infos, blk, keymap, keylist>>
                ELSE \E out \in NomDecode(tag, item, w, uw, Len(keylist)) :
                       IF out.kind # "data"
                       THEN /\ Stop(IF out.kind = "abort" THEN "abort" ELSE "error", out.kind)
                            /\ cb' = [NoBlock EXCEPT !.tag = tag, !.cap = out.cap]
                            /\ UNCHANGED <<pos, infos, blk, keymap, keylist>>
                       ELSE LET r == ParseCount(out.data, 1, w, uw, item.n_entries, <<>>)
                                got == [NoBlock EXCEPT !.tag = tag, !.cap = out.cap,
                                                       !.len = Len(out.data)]
                            IN  IF ~r.ok
                                THEN /\ Stop("error", "Incomplete")
                                     /\ cb' = got
                                     /\ UNCHANGED <<pos, infos, blk, keymap, keylist>>
                                ELSE /\ keymap' = InsertAll(keymap, r.val)
                                     /\ keylist' = keylist \o r.val
                                     /\ cb' = [got EXCEPT !.used = r.next - 1,
                                                          !.nulls = AllNull(out.data, r.next)]
                                     /\ pos' = pos + 8 + item.nb_compressed
                                     /\ infos' = Tail(infos)
                                     /\ blk' = blk + 1
                                     /\ UNCHANGED <<pc, err>>
    /\ UNCHANGED <<phases, meta, hdr, magic, nsum, order, records, rblk, found>>

\* key_block returns the key map and parse builds the Mdx
NomReturn ==
    /\ UNCHANGED <<unz, kb>>
    /\ pc = "key_blocks"
    /\ infos = <<>>
    /\ pc' = "done"
    /\ UNCHANGED <<err, pos, phases, meta, hdr, magic, infos, nsum, blk, keymap, keylist, cb,
                   order, records, rblk, found>>

\* the orders a hash map can enumerate its keys in
Enumerations(m) ==
    {s \in [1..Cardinality(DOMAIN m) -> DOMAIN m] : \A i, j \in DOMAIN s : s[i] = s[j] => i = j}

Take(s, n) == SubSeq(s, 1, IF Len(s) < n THEN Len(s) ELSE n)

\* main: dict.keymap.iter().take(4)
NomEnumerate ==
    /\ UNCHANGED <<unz, kb>>
    /\ pc = "done"
    /\ \E s \in Enumerations(keymap) : order' = Take(s, 4)
    /\ pc' = "listed"
    /\ UNCHANGED <<err, pos, phases, meta, hdr, magic, infos, nsum, blk, keymap, keylist, cb,
                   records, rblk, found>>

Next ==
    \/ NomDictMeta
    \/ NomKeyHeader
    \/ NomKeyBlockInfo
    \/ NomKeyBlock
    \/ NomReturn
    \/ NomEnumerate

Spec == Init /\ [][Next]_vars

\* ========================== src/src/mdict.rs ==========================
\* The binread reader has no version dispatch: numbers are u64 big-endian and
\* headwords are NullString (bytes up to a null) whatever the metadata says.

\* number of 16-bit units in front of the null of the metadata's NullWideString
XmlUnits == {1, 2}
\* what a record content block can decode to
RecordBytes == {NUL, 120}
RecordData == UNION {[1..n -> RecordBytes] : n \in 0..MaxRecLen}
\* nb_compressed / nb_decompressed of a record directory entry
RecordInfos == [nb_compressed : {8 + MaxRecLen}, nb_decompressed : {MaxRecLen, OverCeiling}]

\* Mdx: n_dict_meta, dict (a NullWideString, then parse_dict_meta), checksum
BrMeta ==
    /\ UNCHANGED <<unz, kb>>
    /\ pc = "meta"
    /\ phases' = Append(phases, "meta")
    /\ \E len \in MetaLens, units \in XmlUnits, out \in {"IO", "De", "ok"} :
         IF out = "ok"
         THEN /\ pos' = pos + 4 + 2 * (units + 1) + 4
              /\ pc' = "key_header"
              /\ UNCHANGED err
         ELSE /\ Stop("error", out)
              /\ UNCHANGED pos
    /\ UNCHANGED <<meta, hdr, magic, infos, nsum, blk, keymap, keylist, cb, order, records,
                   rblk, found>>

\* MdxKeyBlock: n_blocks, n_entires, nb_decompressed, nb_info, nb_blocks, checksum
BrKeyHeader ==
    /\ UNCHANGED <<unz, kb>>
    /\ pc = "key_header"
    /\ phases' = Append(phases, "key")
    /\ \/ /\ Stop("error", "IO")
          /\ UNCHANGED <<pos, hdr>>
       \/ \E nb \in 0..MaxBlocks, ne \in NEntries, nbi \in NbInfos :
            /\ hdr' = [n_blocks |-> nb, n_entries |-> ne, nb_block_info |-> nbi]
            /\ pos' = pos + 5 * 8 + 4
            /\ pc' = "key_info"
            /\ UNCHANGED err
    /\ UNCHANGED <<meta, magic, infos, nsum, blk, keymap, keylist, cb, order, records, rblk,
                   found>>

\* MdxKeyBlockInfoItem pushed by parse_key_block_info
KeyBlockInfoItem(r) ==
    [n_entries |-> r.n_entries, nb_compressed |-> r.nb_compressed,
     nb_decompressed |-> r.nb_decompressed]

\* MdxKeyBlockInfo: magic = 0x2u32, checksum, nb_info - 8 bytes through parse_key_block_info
BrKeyBlockInfo ==
    /\ UNCHANGED <<unz, kb>>
    /\ pc = "key_info"
    /\ \/ /\ Stop("error", "IO")
          /\ UNCHANGED <<pos, magic, infos, nsum>>
       \/ \E m \in Magics :
            /\ magic' = m
            /\ IF m # 2
               THEN /\ Stop("error", "BadMagic")
                    /\ UNCHANGED <<pos, infos, nsum>>
               ELSE \/ /\ Stop("error", "IO")
                       /\ UNCHANGED <<pos, infos, nsum>>
                    \/ \E recs \in [1..hdr.n_blocks -> InfoRecs(8, 1)] :
                         /\ infos' = [i \in 1..hdr.n_blocks |-> KeyBlockInfoItem(recs[i])]
                         /\ nsum' = SumEntries(recs)
                         /\ pos' = pos + 4 + 4 + (hdr.nb_block_info - 8)
                         /\ pc' = "key_blocks"
                         /\ UNCHANGED err
    /\ UNCHANGED <<phases, meta, hdr, blk, keymap, keylist, cb, order, records, rblk, found>>

\* MdxContentBlock + parse_content_block on a frame declared (nb_compressed, nb_decompressed)
\* that can decode to one of datas: the tag must be a ContentBlockType, only Zlib is decoded
BrDecode(tag, nb_decompressed, datas) ==
    CASE tag \notin {0, 1, 2} -> {[kind |-> "NoVariantMatch", how |-> "error", cap |-> -1]}
      [] tag \in {0, 1} -> {[kind |-> "not yet implemented", how |-> "panic", cap |-> -1]}
      [] tag = 2 ->
           {[kind |-> "data", cap |-> nb_decompressed, data |-> d] : d \in datas}
           \cup {[kind |-> "IO", how |-> "error", cap |-> nb_decompressed],
                 [kind |-> "abort", how |-> "abort", cap |-> nb_decompressed]}

\* number of turns of `for _ in lo..hi`
RangeCount(lo, hi) == IF hi > lo THEN hi - lo ELSE 0

\* parse_key_entries, one turn of `for item in &info.data`: the content block, then
\* `for _ in 1..item.n_entries` MdxKeyItem (u64 id, NullString text) into the map
BrKeyBlock ==
    /\ UNCHANGED <<unz, kb>>
    /\ pc = "key_blocks"
    /\ blk <= Len(infos)
    /\ LET item == infos[blk] IN
       \/ /\ Stop("error", "IO")
          /\ UNCHANGED <<pos, blk, keymap, keylist, cb>>
       \/ \E tag \in Tags :
            \E out \in BrDecode(tag, item.nb_decompressed, Contents(8, 1, Len(keylist))) :
              IF out.kind # "data"
              THEN /\ Stop(out.how, out.kind)
                   /\ cb' = [NoBlock EXCEPT !.tag = tag, !.cap = out.cap]
                   /\ UNCHANGED <<pos, blk, keymap, keylist>>
              ELSE LET r == ParseCount(out.data, 1, 8, 1, RangeCount(1, item.n_entries), <<>>)
                       got == [NoBlock EXCEPT !.tag = tag, !.cap = out.cap,
                                              !.len = Len(out.data)]
                   IN  IF ~r.ok
                       THEN /\ Stop("error", "IO")
                            /\ cb' = got
                            /\ UNCHANGED <<pos, blk, keymap, keylist>>
                       ELSE /\ keymap' = InsertAll(keymap, r.val)
                            /\ keylist' = keylist \o r.val
                            /\ cb' = [got EXCEPT !.used = r.next - 1,
                                                 !.nulls = AllNull(out.data, r.next)]
                            /\ pos' = pos + 8 + (item.nb_compressed - 8)
                            /\ blk' = blk + 1
                            /\ UNCHANGED <<pc, err>>
    /\ UNCHANGED <<phases, meta, hdr, magic, infos, nsum, order, records, rblk, found>>

\* MdxRecordBlock: n_blocks, n_entries, nb_info, nb_blocks and the n_blocks pairs of info
BrRecordHeader ==
    /\ UNCHANGED <<unz, kb>>
    /\ pc = "key_blocks"
    /\ blk > Len(infos)
    /\ phases' = Append(phases, "record")
    /\ \/ /\ Stop("error", "IO")
          /\ UNCHANGED <<pos, rblk>>
       \/ \E nb \in 0..MaxBlocks :
            /\ rblk' = nb
            /\ pos' = pos + 4 * 8 + nb * 16
            /\ pc' = "record_blocks"
            /\ UNCHANGED err
    /\ UNCHANGED <<meta, hdr, magic, infos, nsum, blk, keymap, keylist, cb, order, records,
                   found>>

\* parse_record_entries, one content block of the directory
BrRecordBlock ==
    /\ UNCHANGED <<unz, kb>>
    /\ pc = "record_blocks"
    /\ rblk > 0
    /\ \/ /\ Stop("error", "IO")
          /\ UNCHANGED <<pos, rblk, records, cb>>
       \/ \E item \in RecordInfos, tag \in Tags :
            \E out \in BrDecode(tag, item.nb_decompressed, RecordData) :
              IF out.kind # "data"
              THEN /\ Stop(out.how, out.kind)
                   /\ cb' = [NoBlock EXCEPT !.tag = tag, !.cap = out.cap]
                   /\ UNCHANGED <<pos, rblk, records>>
              ELSE /\ records' = Append(records, out.data)
                   /\ cb' = [NoBlock EXCEPT !.tag = tag, !.cap = out.cap,
                                            !.len = Len(out.data)]
                   /\ pos' = pos + 8 + (item.nb_compressed - 8)
                   /\ rblk' = rblk - 1
                   /\ UNCHANGED <<pc, err>>
    /\ UNCHANGED <<phases, meta, hdr, magic, infos, nsum, blk, keymap, keylist, order, found>>

\* Mdx::parse returns the Mdx
BrReturn ==
    /\ UNCHANGED <<unz, kb>>
    /\ pc = "record_blocks"
    /\ rblk = 0
    /\ pc' = "done"
    /\ UNCHANGED <<err, pos, phases, meta, hdr, magic, infos, nsum, blk, keymap, keylist, cb,
                   order, records, rblk, found>>

NextBinread ==
    \/ BrMeta
    \/ BrKeyHeader
    \/ BrKeyBlockInfo
    \/ BrKeyBlock
    \/ BrRecordHeader
    \/ BrRecordBlock
    \/ BrReturn

SpecBinread == Init /\ [][NextBinread]_vars

\* ---- Mdx::search and MdxRecordBlock::record ----

RECURSIVE FindBlock(_, _, _)
\* the closure of `find` in record: it walks the blocks, taking the length of every block
\* it passes from pos, and stops at the first block with pos <= len
FindBlock(blocks, i, p) ==
    IF i > Len(blocks) THEN [found |-> FALSE]
    ELSE LET len == Len(blocks[i]) IN
         IF p > len THEN FindBlock(blocks, i + 1, p - len)
         ELSE [found |-> TRUE, idx |-> i, pos |-> p]

RECURSIVE TakeWhileNonNull(_)
TakeWhileNonNull(bs) ==
    IF bs = <<>> \/ Head(bs) = NUL THEN <<>> ELSE <<Head(bs)>> \o TakeWhileNonNull(Tail(bs))

\* item.data.iter().skip(pos)
Skip(bs, n) == IF n >= Len(bs) THEN <<>> ELSE SubSeq(bs, n + 1, Len(bs))

\* MdxRecordBlock::record: the bytes from pos up to a null in the block found; unwrap
\* panics when no block is found
Record(blocks, p) ==
    LET f == FindBlock(blocks, 1, p) IN
    IF ~f.found THEN [panic |-> TRUE]
    ELSE [panic |-> FALSE, text |-> TakeWhileNonNull(Skip(blocks[f.idx], f.pos))]

\* str::contains
Contains(s, t) == \E i \in 0..(Len(s) - Len(t)) : SubSeq(s, i + 1, i + Len(t)) = t

Queries == {<<>>} \cup Headwords

RECURSIVE Matches(_, _, _)
\* the entries, in the order the map enumerates them, whose headword contains text
Matches(m, s, text) ==
    IF s = <<>> THEN <<>>
    ELSE (IF Contains(Head(s), text) THEN <<[hw |-> Head(s), off |-> m[Head(s)]]>> ELSE <<>>)
         \o Matches(m, Tail(s), text)

\* an Mdx as Mdx::parse returns it: a key map and the decoded record blocks
KeyMaps == UNION {[D -> 0..MaxOffset] : D \in SUBSET Headwords}
RecordSeqs == UNION {[1..n -> RecordData] : n \in 0..MaxBlocks}

InitSearch ==
    /\ pc = "done"
    /\ err = ""
    /\ pos = 0
    /\ phases = <<"meta", "key", "record">>
    /\ meta = NoMeta
    /\ hdr = NoHdr
    /\ magic = 2
    /\ infos = <<>>
    /\ nsum = 0
    /\ blk = 1
    /\ keymap \in KeyMaps
    /\ keylist = <<>>
    /\ cb = NoBlock
    /\ order = <<>>
    /\ records \in RecordSeqs
    /\ rblk = 0
    /\ found = [kind |-> "none"]
    /\ unz = NoUnz
    /\ kb = NoKb

\* Mdx::search(text): every entry whose headword contains text, with its record; the hits
\* carry the record offset next to the headword and the article
Search ==
    /\ UNCHANGED <<unz, kb>>
    /\ pc = "done"
    /\ \E text \in Queries, s \in Enumerations(keymap) :
         LET ms == Matches(keymap, s, text)
             rs == [i \in 1..Len(ms) |-> Record(records, ms[i].off)]
         IN  IF \E i \in 1..Len(ms) : rs[i].panic
             THEN /\ Stop("panic", "unwrap on None")
                  /\ found' = [kind |-> "panic", text |-> text]
             ELSE /\ found' = [kind |-> "ok", text |-> text,
                               hits |-> [i \in 1..Len(ms) |->
                                           [hw |-> ms[i].hw, off |-> ms[i].off,
                                            text |-> rs[i].text]]]
                  /\ UNCHANGED <<pc, err>>
    /\ UNCHANGED <<pos, phases, meta, hdr, magic, infos, nsum, blk, keymap, keylist, cb, order,
                   records, rblk>>

NextSearch == Search

SpecSearch == InitSearch /\ [][NextSearch]_vars

\* ---- unzip (main.rs) / parse_key_block_info (mdict.rs): the deobfuscation loop ----

\* longest ciphertext of the model
MaxCipherLen == 258

RECURSIVE BitXor(_, _)
\* ^ on unsigned integers
BitXor(a, b) ==
    IF a = 0 THEN b
    ELSE IF b = 0 THEN a
    ELSE 2 * BitXor(a \div 2, b \div 2) + ((a + b) % 2)

RECURSIVE BitAnd(_, _)
\* & on unsigned integers
BitAnd(a, b) ==
    IF a = 0 \/ b = 0 THEN 0
    ELSE 2 * BitAnd(a \div 2, b \div 2) + (IF a % 2 = 1 /\ b % 2 = 1 THEN 1 ELSE 0)

RECURSIVE BitOr(_, _)
\* | on unsigned integers
BitOr(a, b) ==
    IF a = 0 THEN b
    ELSE IF b = 0 THEN a
    ELSE 2 * BitOr(a \div 2, b \div 2) + (IF a % 2 = 1 \/ b % 2 = 1 THEN 1 ELSE 0)

\* >> 4 and << 4 on a u8: the bits shifted out are lost
Shr4(b) == b \div 16
Shl4(b) == (b * 16) % 256

\* the byte the closure yields for ciphertext byte b at index i:
\* t = (*b >> 4 | *b << 4) & 0xff;  t ^ prev ^ (i & 0xff) as u8 ^ key[i % key.len()]
DeobfuscateByte(b, prev, i, key) ==
    LET t == BitAnd(BitOr(Shr4(b), Shl4(b)), 255) IN
    BitXor(BitXor(BitXor(t, prev), BitAnd(i, 255)), key[(i % Len(key)) + 1])

\* the feedback of a port that chains on the plaintext byte
NextPrevPlain(b, t) == t

\* prev = *b: the closure keeps the ciphertext byte b, not the byte t it yields
NextPrev(b, t) == b

\* let mut prev = 0x36
PrevSeed == 54
\* length of a RIPEMD-128 digest, the key
DigestLen == 16
\* the digests the model draws the key from (the hash itself is a library)
Keys == {[j \in 1..DigestLen |-> (17 * j + 3) % 256],
         [j \in 1..DigestLen |-> (5 * j * j + 200) % 256]}
\* ciphertexts: every string of at most two sample bytes, and two long ones
SampleBytes == {0, 54, 165, 255}
Ciphers ==
    UNION {[1..n -> SampleBytes] : n \in 0..2}
    \cup {[i \in 1..MaxCipherLen |-> (i - 1) % 256],
          [i \in 1..MaxCipherLen |-> (37 * (i - 1) + 11) % 256]}

InitUnzip ==
    /\ pc = "unzip"
    /\ err = ""
    /\ pos = 0
    /\ phases = <<"meta", "key">>
    /\ meta = [ver2 |-> TRUE, utf8 |-> TRUE]
    /\ hdr = NoHdr
    /\ magic = 2
    /\ infos = <<>>
    /\ nsum = 0
    /\ blk = 1
    /\ keymap = EmptyMap
    /\ keylist = <<>>
    /\ cb = NoBlock
    /\ order = <<>>
    /\ records = <<>>
    /\ rblk = 0
    /\ found = [kind |-> "none"]
    /\ \E c \in Ciphers, k \in Keys :
         unz = [cipher |-> c, key |-> k, i |-> 0, prev |-> PrevSeed, out |-> <<>>]
    /\ kb = NoKb

\* one turn of .iter().enumerate().map(|(i, b)| ...) / iter_mut().enumerate().for_each
UnzipByte ==
    /\ pc = "unzip"
    /\ unz.i < Len(unz.cipher)
    /\ LET b == unz.cipher[unz.i + 1]
           t == DeobfuscateByte(b, unz.prev, unz.i, unz.key)
       IN  unz' = [unz EXCEPT !.out = Append(@, t), !.prev = NextPrev(b, t), !.i = @ + 1]
    /\ UNCHANGED <<pc, err, pos, phases, meta, hdr, magic, infos, nsum, blk, keymap, keylist,
                   cb, order, records, rblk, found, kb>>

\* ZlibDecoder::read_to_end on the deobfuscated bytes: the plaintext stream or an io error
UnzipInflate ==
    /\ pc = "unzip"
    /\ unz.i = Len(unz.cipher)
    /\ \/ pc' = "inflated" /\ UNCHANGED err
       \/ Stop("error", "IO")
    /\ UNCHANGED <<pos, phases, meta, hdr, magic, infos, nsum, blk, keymap, keylist, cb, order,
                   records, rblk, found, unz, kb>>

NextUnzip ==
    \/ UnzipByte
    \/ UnzipInflate

SpecUnzip == InitUnzip /\ [][NextUnzip]_vars

\* ---- info_key / key_bytes: the head and tail of a key-block-info record ----

\* longest head whose text the model draws freely
MaxHeadLen == 3
\* largest value of the u16 length prefix
U16Max == 65535
\* head_len values: the short ones, and the ends of the u8 and u16 ranges
HeadLenSamples(ver2) == (0..MaxHeadLen) \cup (IF ver2 THEN {U16Max - 1, U16Max} ELSE {255})
\* the text units that follow the length prefix: free for short heads, a run of one
\* character for long ones; v2 files end the text with a null unit
HeadTexts(n) ==
    IF n <= MaxHeadLen THEN [1..n -> {97, 98}] ELSE {[i \in 1..n |-> 97]}
InitInfoKey ==
    /\ pc = "info_key"
    /\ err = ""
    /\ pos = 0
    /\ phases = <<"meta", "key">>
    /\ meta = NoMeta
    /\ hdr = NoHdr
    /\ magic = 0
    /\ infos = <<>>
    /\ nsum = 0
    /\ blk = 1
    /\ keymap = EmptyMap
    /\ keylist = <<>>
    /\ cb = NoBlock
    /\ order = <<>>
    /\ records = <<>>
    /\ rblk = 0
    /\ found = [kind |-> "none"]
    /\ unz = NoUnz
    /\ \E v \in BOOLEAN, u \in BOOLEAN :
         \E n \in HeadLenSamples(v) :
           \E t \in HeadTexts(n) :
             kb = [ver2 |-> v, utf8 |-> u, len |-> n,
                   text |-> IF v THEN Append(t, NUL) ELSE t,
                   read |-> -1, units |-> <<>>]

\* the count key_bytes hands to length_count: `v + 1` in v2, on a u16.  At 65535 the
\* addition overflows: a build with overflow checks panics, one without wraps to 0
KeyBytesCount(ver2, v) ==
    IF ~ver2 THEN {[panic |-> FALSE, n |-> v]}
    ELSE IF v + 1 > U16Max THEN {[panic |-> TRUE], [panic |-> FALSE, n |-> (v + 1) % (U16Max + 1)]}
    ELSE {[panic |-> FALSE, n |-> v + 1]}

\* v.truncate(v.len() - 1); on an empty vector the subtraction wraps (the build that
\* got here has no overflow checks) and truncate leaves the vector alone
TruncateLast(v) == IF v = <<>> THEN v ELSE SubSeq(v, 1, Len(v) - 1)

\* key_bytes: the length prefix, length_count of that many units, and in v2 the truncate
KeyBytes ==
    /\ pc = "info_key"
    /\ \E c \in KeyBytesCount(kb.ver2, kb.len) :
         IF c.panic
         THEN /\ Stop("panic", "attempt to add with overflow")
              /\ UNCHANGED kb
         ELSE LET v == SubSeq(kb.text, 1, c.n) IN
              /\ kb' = [kb EXCEPT !.read = c.n,
                                  !.units = IF kb.ver2 THEN TruncateLast(v) ELSE v]
              /\ pc' = "key_bytes"
              /\ UNCHANGED err
    /\ UNCHANGED <<pos, phases, meta, hdr, magic, infos, nsum, blk, keymap, keylist, cb, order,
                   records, rblk, found, unz>>

\* info_key: String::from_utf8 / from_utf16 of the units (the model's units are ASCII)
InfoKeyString ==
    /\ pc = "key_bytes"
    /\ pc' = "info_key_done"
    /\ pos' = pos + (IF kb.ver2 THEN 2 ELSE 1) + kb.read * UnitWidth(kb.utf8)
    /\ UNCHANGED <<err, phases, meta, hdr, magic, infos, nsum, blk, keymap, keylist, cb, order,
                   records, rblk, found, unz, kb>>

NextInfoKey ==
    \/ KeyBytes
    \/ InfoKeyString

SpecInfoKey == InitInfoKey /\ [][NextInfoKey]_vars

\* =============================== properties ===============================

\* the headwords of the entries parsed, in the order they were read
HeadwordsOf(es) == [i \in 1..Len(es) |-> es[i].hw]

RECURSIVE PrefixSum(_, _)
\* total decompressed size of the first k record blocks
PrefixSum(blocks, k) == IF k = 0 THEN 0 ELSE PrefixSum(blocks, k - 1) + Len(blocks[k])

\* C1: every key content block contributes exactly the n_entries entries its
\* KeyBlockInfo declares: when parse_key_entries finishes a block, the entries
\* parsed have grown by that block's n_entries.
C1_AllEntriesParsed ==
    [][(pc = "key_blocks" /\ blk' = blk + 1)
          => Len(keylist') = Len(keylist) + infos[blk].n_entries]_vars

\* C2: after a successful parse of an input whose key-index header and
\* key-block-info records agree on the number of entries, the dictionary holds
\* that many key entries.
C2_EntryCount ==
    (pc = "done" /\ hdr.n_entries = nsum)
        => /\ Cardinality(DOMAIN keymap) = nsum
           /\ Cardinality(DOMAIN keymap) = hdr.n_entries

\* C3: enumerating the headword collection yields every headword in file
\* order: the order of the entries across the key blocks and within each
\* (stated for files whose headwords are pairwise distinct, so that the key
\* map holds every entry read).
C3_FileOrder ==
    (pc = "listed" /\ Cardinality(DOMAIN keymap) = Len(keylist))
        => order = HeadwordsOf(keylist)

\* C4: the parse runs the three phases metadata, key index, record index in
\* that order, the read position never moves backwards, and a key content block
\* ends 8 + nb_compressed payload bytes after it starts, whatever it decodes to.
C4_LinearPhases ==
    [][/\ pos' >= pos
       /\ (pc' = "done" /\ pc # "done") => phases' = <<"meta", "key", "record">>
       /\ (pc = "key_blocks" /\ blk' = blk + 1)
             => pos' = pos + 8 + Head(infos).nb_compressed]_vars

\* C5: the article returned for a record offset is read from the first record
\* block whose running prefix sum of decompressed sizes exceeds the offset,
\* starting at the offset minus the total size of the blocks before it.
C5_FirstBlockExceeding ==
    found.kind = "ok" =>
        \A i \in 1..Len(found.hits) :
            LET h == found.hits[i] IN
            \A k \in 1..Len(records) :
                (/\ PrefixSum(records, k) > h.off
                 /\ \A j \in 1..(k - 1) : PrefixSum(records, j) <= h.off)
                    => h.text = TakeWhileNonNull(Skip(records[k],
                                                     h.off - PrefixSum(records, k - 1)))

\* C6: a content-block frame whose type tag is not 0, 1 or 2 makes the parse
\* fail with an UnknownBlockType error value; it does not panic.
C6_UnknownTypeIsError ==
    (cb.tag # -1 /\ cb.tag \notin {0, 1, 2})
        => (pc = "error" /\ err = "UnknownBlockType")

\* C7: in v2 a key-block-info section whose magic is not 2 makes the parse
\* fail with BadMagic, and no key-block-info record is decoded.
C7_BadMagicRejected ==
    (meta.ver2 /\ magic \notin {0, 2})
        => (pc = "error" /\ err = "BadMagic" /\ infos = <<>>)

\* C8: no buffer is allocated with a declared nb_decompressed above the size
\* ceiling.
C8_CeilingBeforeAllocation ==
    cb.cap <= SizeCeiling

\* C9: once the dictionary is constructed, search never panics: it returns a
\* (possibly empty) result for every query and every stored offset.
C9_SearchNeverFails ==
    pc # "panic" /\ found.kind # "panic"

\* C10: a content block the codec returns has exactly the nb_decompressed bytes
\* declared for it.
C10_DeclaredLength ==
    [][(pc = "key_blocks" /\ blk' = blk + 1)
          => cb'.len = Head(infos).nb_decompressed]_vars

\* the nibble swap and the previous byte of the documented cipher, by arithmetic
NibbleSwap(c) == (c % 16) * 16 + (c \div 16)
PrevOf(C, n) == IF n = 1 THEN 54 ELSE C[n - 1]

\* C11: the deobfuscator maps ciphertext C to a plaintext of the same length
\* with P[i] = nibble_swap(C[i]) XOR prev XOR (i AND 0xFF) XOR K[i mod 16],
\* prev being 0x36 at i = 0 and the ciphertext byte C[i-1] afterwards.
C11_Deobfuscation ==
    /\ \A n \in 1..Len(unz.out) :
         unz.out[n] = BitXor(BitXor(BitXor(NibbleSwap(unz.cipher[n]), PrevOf(unz.cipher, n)),
                                    (n - 1) % 256),
                             unz.key[((n - 1) % 16) + 1])
    /\ pc = "inflated" => Len(unz.out) = Len(unz.cipher)

\* a ciphertext longer than 256 bytes was deobfuscated to the end, and its
\* plaintext differs from it from the first byte on
C11_Witness ==
    /\ pc = "inflated"
    /\ Len(unz.cipher) > 256
    /\ Len(unz.out) = Len(unz.cipher)
    /\ unz.out[1] # unz.cipher[1]

\* C12: head and tail consume head_len + 1 text units in v2, for every u16
\* head_len, and head_len units in v1; the head stored has exactly head_len
\* units (in v2 the one trailing null unit is stripped); reading never panics.
C12_HeadUnits ==
    /\ pc # "panic"
    /\ pc \in {"key_bytes", "info_key_done"}
          => /\ kb.read = (IF kb.ver2 THEN kb.len + 1 ELSE kb.len)
             /\ Len(kb.units) = kb.len
             /\ kb.units = SubSeq(kb.text, 1, kb.len)

\* C13: in every key block that is accepted, the n_entries entries consume the
\* whole decompressed buffer: nothing is left after the last entry except a
\* trailing null (one text unit at most).
C13_NoLeftover ==
    cb.used # -1 => (cb.nulls /\ cb.len - cb.used <= UnitWidth(meta.utf8))

\* the places of headword h among the entries read
PlacesOf(es, h) == {i \in 1..Len(es) : es[i].hw = h}
\* the largest element of a nonempty set of numbers
Last(S) == CHOOSE i \in S : \A j \in S : j <= i

\* C14: the key map holds one entry per distinct headword read, and for a
\* headword read several times the record offset of its last occurrence in
\* file order; its size is the number of distinct headwords, not of entries.
C14_LastOccurrenceWins ==
    /\ DOMAIN keymap = {keylist[i].hw : i \in 1..Len(keylist)}
    /\ \A h \in DOMAIN keymap : keymap[h] = keylist[Last(PlacesOf(keylist, h))].off
    /\ Cardinality(DOMAIN keymap) = Cardinality({keylist[i].hw : i \in 1..Len(keylist)})

\* key_block has completed on a file that repeats a headword, in two blocks,
\* with different record offsets
C14_Witness ==
    /\ pc = "done"
    /\ blk = 3
    /\ \E i, j \in 1..Len(keylist) :
         /\ i < j
         /\ keylist[i].hw = keylist[j].hw
         /\ keylist[i].off # keylist[j].off
         /\ keymap[keylist[j].hw] = keylist[j].off
    /\ Cardinality(DOMAIN keymap) < Len(keylist)

====
